---- MODULE Spec2Model ----
(***************************************************************************)
(* State-machine model of the Rently (openly) Home Assistant integration:  *)
(* the lock entity (lock.py), the climate entity (climate.py) and the      *)
(* coordinator's login / refresh (coordinator.py).                         *)
(*                                                                         *)
(* Every await of the source is a step boundary.  A cloud-client call is   *)
(* dispatched to an executor job: the issuing coroutine submits the job in *)
(* one step and resumes with its result in a later one; the job reads the  *)
(* remote side as it is when the coroutine resumes (the remote side may    *)
(* change freely in between).                                              *)
(***************************************************************************)
EXTENDS Integers, Sequences, FiniteSets, TLC

\* ------------------------------------------------------------ const.py
API_MAX_LOGIN_ATTEMPTS == 3
API_LOGIN_RETRY_TIME == 3
LOCK_MAX_REFRESH_ATTEMPTS == 3
CLIMATE_MIN_TEMP_SPREAD == 3

\* homeassistant.components.lock state names imported by lock.py
STATE_JAMMED == "jammed"
STATE_LOCKED == "locked"
STATE_LOCKING == "locking"
STATE_UNAVAILABLE == "unavailable"
STATE_UNLOCKING == "unlocking"
STATE_UNLOCKED == "unlocked"

\* ------------------------------------------------------------ bounds
\* battery levels a remote lock record may carry: 1..MaxBattery
MaxBattery == 1
\* commands the host invokes on the entity in one run
MaxCommands == 1
\* refreshes of the coordinator in one run
MaxRefreshes == 2
\* hubs the account may hold: ids 1..MaxHubs
MaxHubs == 2

\* ------------------------------------------------------------ values
\* Python None, as returned by get_device for an unknown id
None == [tag |-> "None"]
\* outcomes of an executor job other than a device record
Ok == [tag |-> "Ok"]
\* no get_device has returned or raised yet
NoFetch == [tag |-> "NoFetch"]
RentlyAPIError == [tag |-> "RentlyAPIError"]

\* modes the cloud reports for a lock
RemoteLockModes == {STATE_LOCKED, STATE_UNLOCKED, STATE_JAMMED}
Lock(m, b) == [tag |-> "Lock", mode |-> m, battery |-> b]
LockRecords == {Lock(m, b) : m \in RemoteLockModes, b \in 1..MaxBattery}

IsRecord(r) == r.tag \in {"Lock", "Thermostat"}

VARIABLES
    kind,                 \* the component the run follows: "lock" (a LockEntity),
                          \* "climate" (a ClimateEntity) or "coordinator"
    remote,               \* the device as the cloud holds it: a record, or None
    self_lock,            \* LockEntity._lock
    self_state,           \* LockEntity._state
    self_attr_available,  \* LockEntity._attr_available
    battery_attr,         \* _attr_extra_state_attributes[ATTR_BATTERY_LEVEL]
    ha_state,             \* state last written by async_write_ha_state()
    pc,                   \* position of the command coroutine
    op,                   \* the command last invoked
    result,               \* how it ended: "pending", "ok" or the exception raised
    attempts,             \* the local variable attempts
    poll_pc,              \* position of the host's periodic async_update
    trace,                \* what the command last invoked did, in order: its
                          \* async_write_ha_state() and cloud-client calls
    confirm_fetches,      \* results of its async_get_lock_status fetches, in order
    final_fetch,          \* what its final async_device_update showed, or "none"
    ever_loaded,          \* has any async_update found the device
    update_fetch,         \* what get_device gave the async_update last run
    logged,               \* did the async_update last run through log "Lock not found"
    update_found,         \* did the lock's async_update that last returned find the device
    self_climate,         \* ClimateEntity._climate
    args,                 \* the arguments of the command last invoked
    sent,                 \* the record last passed to update_device_status, or None
    mutation_result,      \* how the update_device_status of the command last invoked
                          \* ended: "none" (not called), "pending", "Ok" or the error
    ncmds,                \* number of commands invoked so far
    connected,            \* cloud.connected
    refresh_pc,           \* position of the coordinator's _async_refresh
    login_attempts,       \* the local variable attempts of async_login
    login_calls,          \* cloud.login calls made by the async_login last invoked
    was_connected,        \* cloud.connected when async_login was last invoked
    login_result,         \* how async_login ended: "ok" or the exception raised
    refresh_result,       \* how _async_refresh ended: "ok" or the exception raised
    hubs_outcome,         \* what get_hubs did in the refresh last invoked, or "none"
    nrefresh,             \* number of refreshes invoked so far
    cloud_hubs,           \* the hubs the account holds on the cloud: a set of ids
    cloud_devices,        \* the devices its hubs hold on the cloud
    setup_pc,             \* position of async_setup_entry
    setup_result,         \* how it ended: "True" or the exception raised
    hub_devices,          \* its local hub_devices: the hubs get_hubs returned
    hub_index,            \* the position of its loop over hub_devices
    lock_devices,         \* its local lock_devices
    thermostats_seen,     \* the thermostats its get_devices calls returned
    coordinator_hubs,     \* coordinator.hubs: the id of each HubEntity
    coordinator_locks,    \* coordinator.locks: the id of each LockEntity
    coordinator_climates, \* coordinator.climates: the id of each ClimateEntity
    registered,           \* is the coordinator in hass.data[DOMAIN]
    added,                \* the entities given to async_add_entities
    built_from            \* the refresh (by number) the collections were built after

vars == <<kind, remote, self_lock, self_state, self_attr_available, battery_attr,
          ha_state, pc, op, result, attempts, poll_pc, trace,
          confirm_fetches, final_fetch, ever_loaded, update_fetch, logged, update_found,
          self_climate, args, sent, mutation_result, ncmds, connected, refresh_pc, login_attempts, login_calls, was_connected,
          login_result, refresh_result, hubs_outcome, nrefresh, cloud_hubs,
          cloud_devices, setup_pc, setup_result, hub_devices, hub_index,
          lock_devices, thermostats_seen, coordinator_hubs, coordinator_locks,
          coordinator_climates, registered, added, built_from>>

coordinator_fields == <<connected, refresh_pc, login_attempts, login_calls,
                        was_connected, login_result, refresh_result, hubs_outcome,
                        nrefresh>>
collections == <<coordinator_hubs, coordinator_locks, coordinator_climates>>
setup_locals == <<hub_devices, hub_index, lock_devices, thermostats_seen>>
setup_fields == <<cloud_hubs, cloud_devices, setup_pc, setup_result, setup_locals,
                  collections, registered, added, built_from>>
lock_fields == <<self_lock, self_state, self_attr_available, battery_attr, logged,
                 update_found>>
cmd_fields == <<pc, op, result, attempts, trace, confirm_fetches, final_fetch,
                args, sent, mutation_result, ncmds>>

\* ------------------------------------------------------------ lock.py
\* LockEntity.__init__ and the class attributes
LockEntityInit ==
    /\ self_lock = None
    /\ self_state = STATE_UNAVAILABLE
    /\ self_attr_available = TRUE
    /\ battery_attr = 0
    /\ logged = FALSE
    /\ update_found = FALSE

\* the transient state a command sets before sending
Transient(o) == IF o = "lock" THEN STATE_LOCKING ELSE STATE_UNLOCKING

\* the loop's break condition on the value of async_get_lock_status
Confirmed(o, locked) == IF o = "lock" THEN locked ELSE ~locked

\* async_get_lock_status: lock.mode == STATE_LOCKED
async_get_lock_status(lock) == lock.mode = STATE_LOCKED

\* the loop condition of the confirmation loop
LoopCondition(a) == a < LOCK_MAX_REFRESH_ATTEMPTS

\* async_update that stores the record but never copies its mode into _state
async_update_keeps_state(lock) ==
    /\ self_lock' = lock
    /\ self_attr_available' = (lock # None)
    /\ battery_attr' = (IF lock = None THEN battery_attr ELSE lock.battery)
    /\ UNCHANGED self_state
    /\ logged' = (lock = None /\ self_attr_available)
    /\ ever_loaded' = (ever_loaded \/ lock # None)
    /\ update_found' = (lock # None)

\* async_update that lets an optimistic locking/unlocking state stand
async_update_keeps_transient(lock) ==
    /\ self_lock' = lock
    /\ IF lock = None
       THEN /\ logged' = self_attr_available
            /\ self_attr_available' = FALSE
            /\ UNCHANGED <<self_state, battery_attr>>
       ELSE /\ logged' = FALSE
            /\ self_attr_available' = TRUE
            /\ battery_attr' = lock.battery
            /\ self_state' = (IF self_state \in {STATE_LOCKING, STATE_UNLOCKING}
                               THEN self_state ELSE lock.mode)
    /\ ever_loaded' = (ever_loaded \/ lock # None)
    /\ update_found' = (lock # None)

\* async_update that logs "Lock not found" on every update that finds no device
async_update_logs_always(lock) ==
    /\ self_lock' = lock
    /\ logged' = (lock = None)
    /\ IF lock = None
       THEN /\ self_attr_available' = FALSE
            /\ UNCHANGED <<self_state, battery_attr>>
       ELSE /\ self_attr_available' = TRUE
            /\ battery_attr' = lock.battery
            /\ self_state' = lock.mode
    /\ ever_loaded' = (ever_loaded \/ lock # None)
    /\ update_found' = (lock # None)

\* async_update that keeps the record it has when get_device finds no device
async_update_keeps_record(lock) ==
    /\ self_lock' = (IF lock = None THEN self_lock ELSE lock)
    /\ IF lock = None
       THEN /\ logged' = self_attr_available
            /\ self_attr_available' = FALSE
            /\ UNCHANGED <<self_state, battery_attr>>
       ELSE /\ logged' = FALSE
            /\ self_attr_available' = TRUE
            /\ battery_attr' = lock.battery
            /\ self_state' = lock.mode
    /\ ever_loaded' = (ever_loaded \/ lock # None)
    /\ update_found' = (lock # None)

\* async_update from the point where get_device has returned lock
async_update(lock) ==
    /\ self_lock' = lock
    /\ IF lock = None
       THEN /\ logged' = self_attr_available
            /\ self_attr_available' = FALSE
            /\ UNCHANGED <<self_state, battery_attr>>
       ELSE /\ logged' = FALSE
            /\ self_attr_available' = TRUE
            /\ battery_attr' = lock.battery
            /\ self_state' = lock.mode
    /\ ever_loaded' = (ever_loaded \/ lock # None)
    /\ update_found' = (lock # None)

\* the cloud-client calls in a trace
CloudCalls(t) == SelectSeq(t, LAMBDA e : e # "async_write_ha_state")

\* what a fetch showed, as recorded in the command's history
Seen(r) == IF IsRecord(r) THEN r.mode ELSE r.tag

\* the host polls the entity: async_update submits get_device
async_update_begin ==
    /\ kind = "lock"
    /\ poll_pc = "idle"
    /\ poll_pc' = "fetching"
    /\ UNCHANGED <<kind, setup_fields, coordinator_fields, remote, lock_fields, ha_state, cmd_fields, ever_loaded, update_fetch,
                   self_climate>>

\* the poll's async_update resumes with the result of get_device, or get_device raises
async_update_end ==
    /\ kind = "lock"
    /\ poll_pc = "fetching"
    /\ poll_pc' = "idle"
    /\ \E r \in {remote, RentlyAPIError} :
          /\ update_fetch' = r
          /\ IF r = RentlyAPIError
             THEN UNCHANGED <<lock_fields, ever_loaded>>
             ELSE async_update(r)
    /\ UNCHANGED <<kind, setup_fields, coordinator_fields, remote, ha_state, cmd_fields, self_climate>>

\* a command that sends the mutation before it sets and publishes the state
LockCommand_sends_first(o) ==
    /\ kind = "lock"
    /\ pc = "idle"
    /\ ncmds < MaxCommands
    /\ ncmds' = ncmds + 1
    /\ op' = o
    /\ args' = <<>>
    /\ confirm_fetches' = <<>>
    /\ final_fetch' = "none"
    /\ IF self_lock = None
       THEN /\ result' = "DeviceNotFoundError"
            /\ trace' = <<>>
            /\ UNCHANGED <<pc, attempts, lock_fields, ha_state, sent>>
            /\ mutation_result' = "none"
       ELSE /\ self_lock' = [self_lock EXCEPT !.mode =
                                IF o = "lock" THEN STATE_LOCKED ELSE STATE_UNLOCKED]
            /\ sent' = self_lock'
            /\ mutation_result' = "pending"
            /\ trace' = <<"update_device_status">>
            /\ pc' = "mutating"
            /\ result' = "pending"
            /\ UNCHANGED <<attempts, self_state, ha_state, self_attr_available,
                           battery_attr, logged, update_found>>
    /\ UNCHANGED <<kind, setup_fields, coordinator_fields, remote, poll_pc, ever_loaded, update_fetch, self_climate>>

\* async_lock / async_unlock up to the first await
LockCommand(o) ==
    /\ kind = "lock"
    /\ pc = "idle"
    /\ ncmds < MaxCommands
    /\ ncmds' = ncmds + 1
    /\ op' = o
    /\ args' = <<>>
    /\ confirm_fetches' = <<>>
    /\ final_fetch' = "none"
    /\ IF self_lock = None
       THEN /\ result' = "DeviceNotFoundError"
            /\ trace' = <<>>
            /\ UNCHANGED <<pc, attempts, lock_fields, ha_state, sent>>
            /\ mutation_result' = "none"
       ELSE /\ self_state' = Transient(o)
            /\ ha_state' = Transient(o)
            /\ self_lock' = [self_lock EXCEPT !.mode =
                                IF o = "lock" THEN STATE_LOCKED ELSE STATE_UNLOCKED]
            /\ sent' = self_lock'
            /\ mutation_result' = "pending"
            /\ trace' = <<"async_write_ha_state", "update_device_status">>
            /\ pc' = "mutating"
            /\ result' = "pending"
            /\ UNCHANGED <<attempts, self_attr_available, battery_attr, logged, update_found>>
    /\ UNCHANGED <<kind, setup_fields, coordinator_fields, remote, poll_pc, ever_loaded, update_fetch, self_climate>>

async_lock == LockCommand("lock")

async_unlock == LockCommand("unlock")

\* the command raises e
Raise(e) ==
    /\ pc' = "idle"
    /\ result' = e
    /\ UNCHANGED <<attempts, trace>>

\* where the coroutine goes once it holds attempts = a: into the sleep of the
\* loop body, or past the loop into async_device_update, which submits get_device
EnterLoop(a) ==
    /\ attempts' = a
    /\ IF LoopCondition(a)
       THEN /\ pc' = "sleeping"
            /\ UNCHANGED trace
       ELSE /\ pc' = "refreshing"
            /\ trace' = Append(trace, "get_device")
    /\ UNCHANGED result

\* past the loop by break, into async_device_update
BreakLoop ==
    /\ pc' = "refreshing"
    /\ trace' = Append(trace, "get_device")
    /\ UNCHANGED <<attempts, result>>

\* a command that goes on to its confirmation loop whether update_device_status
\* returned or raised
lock_sent_swallows ==
    /\ kind = "lock"
    /\ pc = "mutating"
    /\ \E r \in {Ok, RentlyAPIError} :
          /\ mutation_result' = r.tag
          /\ EnterLoop(1)
    /\ UNCHANGED <<kind, setup_fields, coordinator_fields, remote, lock_fields, ha_state, op, poll_pc,
                   confirm_fetches, final_fetch, ever_loaded, update_fetch, self_climate, args, sent,
                   ncmds>>

\* update_device_status returns or raises; on return attempts = 1
lock_sent ==
    /\ kind = "lock"
    /\ pc = "mutating"
    /\ \E r \in {Ok, RentlyAPIError} :
          /\ mutation_result' = r.tag
          /\ IF r = RentlyAPIError THEN Raise("RentlyAPIError") ELSE EnterLoop(1)
    /\ UNCHANGED <<kind, setup_fields, coordinator_fields, remote, lock_fields, ha_state, op, poll_pc,
                   confirm_fetches, final_fetch, ever_loaded, update_fetch, self_climate, args, sent,
                   ncmds>>

\* asyncio.sleep(LOCK_UPDATE_DELAY) is over: async_get_lock_status submits get_device
lock_sleep_done ==
    /\ kind = "lock"
    /\ pc = "sleeping"
    /\ pc' = "confirming"
    /\ trace' = Append(trace, "get_device")
    /\ UNCHANGED <<kind, setup_fields, coordinator_fields, remote, lock_fields, ha_state, op, result, attempts,
                   poll_pc, confirm_fetches, final_fetch, ever_loaded, update_fetch, self_climate,
                   args, sent, mutation_result, ncmds>>

\* a loop body without its break: a fetch showing the intended state is followed
\* by attempts += 1 and the loop test like any other
lock_confirm_no_break ==
    /\ kind = "lock"
    /\ pc = "confirming"
    /\ \E r \in {remote, RentlyAPIError} :
          /\ confirm_fetches' = Append(confirm_fetches, Seen(r))
          /\ IF r = RentlyAPIError
             THEN Raise("RentlyAPIError")
             ELSE IF r = None
             THEN Raise("AttributeError")
             ELSE EnterLoop(attempts + 1)
    /\ UNCHANGED <<kind, setup_fields, coordinator_fields, remote, lock_fields, ha_state, op, poll_pc,
                   final_fetch, ever_loaded, update_fetch, self_climate, args, sent, mutation_result, ncmds>>

\* the loop body after the fetch: break, or attempts += 1 and the loop test
lock_confirm ==
    /\ kind = "lock"
    /\ pc = "confirming"
    /\ \E r \in {remote, RentlyAPIError} :
          /\ confirm_fetches' = Append(confirm_fetches, Seen(r))
          /\ IF r = RentlyAPIError
             THEN Raise("RentlyAPIError")
             ELSE IF r = None
             THEN Raise("AttributeError")
             ELSE IF Confirmed(op, async_get_lock_status(r))
             THEN BreakLoop
             ELSE EnterLoop(attempts + 1)
    /\ UNCHANGED <<kind, setup_fields, coordinator_fields, remote, lock_fields, ha_state, op, poll_pc,
                   final_fetch, ever_loaded, update_fetch, self_climate, args, sent, mutation_result, ncmds>>

\* a command that returns after the loop without its final update's effect
lock_final_update_dropped ==
    /\ kind = "lock"
    /\ pc = "refreshing"
    /\ pc' = "idle"
    /\ \E r \in {remote, RentlyAPIError} :
          /\ final_fetch' = Seen(r)
          /\ result' = (IF r = RentlyAPIError THEN "RentlyAPIError" ELSE "ok")
    /\ UNCHANGED <<kind, setup_fields, coordinator_fields, remote, lock_fields, ever_loaded, update_fetch, ha_state, op, attempts,
                   poll_pc, trace, confirm_fetches, self_climate, args, sent, mutation_result, ncmds>>

\* the final update: async_device_update runs async_update, then the command returns
lock_final_update ==
    /\ kind = "lock"
    /\ pc = "refreshing"
    /\ pc' = "idle"
    /\ \E r \in {remote, RentlyAPIError} :
          /\ final_fetch' = Seen(r)
          /\ update_fetch' = r
          /\ IF r = RentlyAPIError
             THEN /\ result' = "RentlyAPIError"
                  /\ UNCHANGED <<lock_fields, ever_loaded>>
             ELSE /\ result' = "ok"
                  /\ async_update(r)
    /\ UNCHANGED <<kind, setup_fields, coordinator_fields, remote, ha_state, op, attempts, poll_pc, trace,
                   confirm_fetches, self_climate, args, sent, mutation_result, ncmds>>

\* the remote side: the device changes mode or battery, appears or disappears
RemoteLockChange ==
    /\ kind = "lock"
    /\ remote' \in (LockRecords \cup {None}) \ {remote}
    /\ UNCHANGED <<kind, setup_fields, coordinator_fields, lock_fields, ha_state, cmd_fields, poll_pc, ever_loaded, update_fetch,
                   self_climate>>

\* the remote side of a device that stays registered: it changes mode
LiveRemotes == {Lock(m, 0) : m \in RemoteLockModes}

RemoteModeChange ==
    /\ kind = "lock"
    /\ remote \in LiveRemotes
    /\ remote' \in LiveRemotes \ {remote}
    /\ UNCHANGED <<kind, setup_fields, coordinator_fields, lock_fields, ha_state, cmd_fields, poll_pc,
                   ever_loaded, update_fetch, self_climate>>

LockNext ==
    \/ async_update_begin
    \/ async_update_end
    \/ async_lock
    \/ async_unlock
    \/ lock_sent
    \/ lock_sleep_done
    \/ lock_confirm
    \/ lock_final_update
    \/ RemoteLockChange

\* ------------------------------------------------------------ climate.py
\* const.py defines neither CLIMATE_MAX_REFRESH_ATTEMPTS nor CLIMATE_UPDATE_DELAY,
\* which climate.py imports from it; the attempt budget is taken to be the lock's
CLIMATE_MAX_REFRESH_ATTEMPTS == 3

HVACModes == {"off", "heat", "cool", "auto"}
FanModes == {"on", "auto"}

Thermostat(m, f, lo, hi, ms, fs) ==
    [tag |-> "Thermostat", mode |-> m, fan |-> f, heating_setpoint |-> lo,
     cooling_setpoint |-> hi, modes |-> ms, fan_modes |-> fs]

\* the (modes, fan_modes) lists a thermostat may advertise
Capabilities == {<<HVACModes, FanModes>>, <<{"off", "heat"}, {"auto"}>>}

\* the records the cloud may hold for the thermostat: one that is running
\* (heat, cool or auto) with either capability list
RemoteThermostats ==
    {Thermostat(x[1], "auto", 68, 74, x[2][1], x[2][2]) :
        x \in {y \in (HVACModes \ {"off"}) \X Capabilities : y[1] \in y[2][1]}}

\* a temperature argument: <<>> when the keyword is not supplied, else <<h>>,
\* the float h / 2 (half degrees)
TempHalves == {0, 141}
TempArgs == {<<>>} \cup {<<h>> : h \in TempHalves}

\* int(float(x)) of the float h / 2: truncation towards zero
IntOfFloat(h) == IF h >= 0 THEN h \div 2 ELSE -((-h) \div 2)

\* ClimateEntity._state = None
NoState == "None"

\* ClimateEntity.__init__ and the class attributes
ClimateEntityInit ==
    /\ self_climate = None
    /\ self_state = NoState

\* the properties hvac_mode, hvac_modes and fan_modes
hvac_mode == IF self_climate # None THEN self_climate.mode ELSE "None"

hvac_modes == IF self_climate # None THEN self_climate.modes ELSE {}

fan_modes == IF self_climate # None THEN self_climate.fan_modes ELSE {}

climate_fields == <<self_climate, self_state>>

\* ClimateEntity.async_update: submits get_device through async_get_status
climate_update_begin ==
    /\ kind = "climate"
    /\ poll_pc = "idle"
    /\ poll_pc' = "fetching"
    /\ UNCHANGED <<kind, setup_fields, coordinator_fields, remote, lock_fields, ha_state, cmd_fields, ever_loaded, update_fetch,
                   self_climate>>

\* an async_update that stores the record only while the entity holds none
climate_update_end_first_only ==
    /\ kind = "climate"
    /\ poll_pc = "fetching"
    /\ poll_pc' = "idle"
    /\ \E r \in {remote, RentlyAPIError} :
          /\ update_fetch' = r
          /\ IF r = RentlyAPIError \/ self_climate # None
             THEN UNCHANGED <<climate_fields, ever_loaded>>
             ELSE /\ self_climate' = r
                  /\ self_state' = (IF r # None THEN r.mode ELSE self_state)
                  /\ ever_loaded' = (ever_loaded \/ r # None)
    /\ UNCHANGED <<kind, setup_fields, coordinator_fields, remote, self_lock, self_attr_available,
                   battery_attr, logged, update_found, ha_state, cmd_fields>>

\* ClimateEntity.async_update resumes with the record, or get_device raises
climate_update_end ==
    /\ kind = "climate"
    /\ poll_pc = "fetching"
    /\ poll_pc' = "idle"
    /\ \E r \in {remote, RentlyAPIError} :
          /\ update_fetch' = r
          /\ IF r = RentlyAPIError
             THEN UNCHANGED <<climate_fields, ever_loaded>>
             ELSE /\ self_climate' = r
                  /\ self_state' = (IF r # None THEN r.mode ELSE self_state)
                  /\ ever_loaded' = (ever_loaded \/ r # None)
    /\ UNCHANGED <<kind, setup_fields, coordinator_fields, remote, self_lock, self_attr_available,
                   battery_attr, logged, update_found, ha_state, cmd_fields>>

\* the host invokes command o with arguments a
Invoke(o, a) ==
    /\ kind = "climate"
    /\ pc = "idle"
    /\ ncmds < MaxCommands
    /\ ncmds' = ncmds + 1
    /\ op' = o
    /\ args' = a
    /\ confirm_fetches' = <<>>
    /\ final_fetch' = "none"
    /\ UNCHANGED <<kind, setup_fields, coordinator_fields, remote, poll_pc, ever_loaded, update_fetch, lock_fields>>

\* a command that ends before its first await: raises e, or returns ("ok")
EndAtOnce(e) ==
    /\ result' = e
    /\ trace' = <<>>
    /\ UNCHANGED <<pc, attempts, self_climate, sent, ha_state>>
    /\ mutation_result' = "none"

\* async_save_state up to its first await, with the record as the setter left it:
\* update_device_status(self._climate) is submitted
async_save_state(rec) ==
    /\ self_climate' = rec
    /\ sent' = rec
    /\ mutation_result' = "pending"
    /\ trace' = <<"update_device_status">>
    /\ pc' = "mutating"
    /\ result' = "pending"
    /\ UNCHANGED <<attempts, ha_state>>

async_set_temperature_range(low, high) ==
    async_save_state([self_climate EXCEPT !.heating_setpoint = low,
                                          !.cooling_setpoint = high])

\* async_set_hvac_mode without the test against hvac_modes
async_set_hvac_mode_unchecked ==
    \E m \in HVACModes :
       /\ Invoke("set_hvac_mode", [mode |-> m])
       /\ IF self_climate = None
          THEN EndAtOnce("DeviceNotFoundError")
          ELSE async_save_state([self_climate EXCEPT !.mode = m])

async_set_hvac_mode ==
    \E m \in HVACModes :
       /\ Invoke("set_hvac_mode", [mode |-> m])
       /\ IF self_climate = None
          THEN EndAtOnce("DeviceNotFoundError")
          ELSE IF m \notin hvac_modes
          THEN EndAtOnce("StateNotSupportedError")
          ELSE async_save_state([self_climate EXCEPT !.mode = m])

\* async_set_fan_mode without the test of self._climate: with no record the
\* membership test on fan_modes = None raises TypeError
async_set_fan_mode_no_guard ==
    \E f \in FanModes :
       /\ Invoke("set_fan_mode", [mode |-> f])
       /\ IF self_climate = None
          THEN EndAtOnce("TypeError")
          ELSE IF f \notin fan_modes
          THEN EndAtOnce("StateNotSupportedError")
          ELSE async_save_state([self_climate EXCEPT !.fan = f])

async_set_fan_mode ==
    \E f \in FanModes :
       /\ Invoke("set_fan_mode", [mode |-> f])
       /\ IF self_climate = None
          THEN EndAtOnce("DeviceNotFoundError")
          ELSE IF f \notin fan_modes
          THEN EndAtOnce("StateNotSupportedError")
          ELSE async_save_state([self_climate EXCEPT !.fan = f])

\* async_set_temperature: float(None) raises TypeError when a keyword is missing
async_set_temperature ==
    \E low \in TempArgs, high \in TempArgs :
       /\ Invoke("set_temperature", [low |-> low, high |-> high])
       /\ IF low = <<>> \/ high = <<>>
          THEN EndAtOnce("TypeError")
          ELSE LET temperature_low == IntOfFloat(low[1])
                   temperature_high == IntOfFloat(high[1])
               IN  IF hvac_mode = "cool" /\ temperature_high # 0
                   THEN async_set_temperature_range(
                            temperature_high - CLIMATE_MIN_TEMP_SPREAD, temperature_high)
                   ELSE IF hvac_mode = "heat" /\ temperature_low # 0
                   THEN async_set_temperature_range(
                            temperature_low, temperature_low + CLIMATE_MIN_TEMP_SPREAD)
                   ELSE IF hvac_mode = "auto"
                   THEN async_set_temperature_range(temperature_low, temperature_high)
                   ELSE EndAtOnce("ok")

\* async_save_state after update_device_status: async_write_ha_state(), attempts = 1,
\* the loop test, attempts += 1 and the sleep
climate_sent ==
    /\ kind = "climate"
    /\ pc = "mutating"
    /\ \E r \in {Ok, RentlyAPIError} :
          /\ mutation_result' = r.tag
          /\ IF r = RentlyAPIError
             THEN Raise("RentlyAPIError") /\ UNCHANGED ha_state
             ELSE /\ ha_state' = self_climate
                  /\ trace' = Append(trace, "async_write_ha_state")
                  /\ IF 1 < CLIMATE_MAX_REFRESH_ATTEMPTS
                     THEN attempts' = 2 /\ pc' = "sleeping" /\ UNCHANGED result
                     ELSE attempts' = 1 /\ pc' = "idle" /\ result' = "ok"
    /\ UNCHANGED <<kind, setup_fields, coordinator_fields, remote, lock_fields, self_climate, op, poll_pc,
                   confirm_fetches, final_fetch, ever_loaded, update_fetch, args, sent, ncmds>>

\* after asyncio.sleep: new_state = self.async_get_status() is a coroutine that is
\* never awaited, and new_state.mode raises AttributeError; no fetch is made
climate_sleep_done ==
    /\ kind = "climate"
    /\ pc = "sleeping"
    /\ Raise("AttributeError")
    /\ UNCHANGED <<kind, setup_fields, coordinator_fields, remote, lock_fields, self_climate, ha_state, op, poll_pc,
                   confirm_fetches, final_fetch, ever_loaded, update_fetch, args, sent, mutation_result, ncmds>>

\* the remote side: the thermostat changes, appears or disappears
RemoteClimateChange ==
    /\ kind = "climate"
    /\ remote' \in (RemoteThermostats \cup {None}) \ {remote}
    /\ UNCHANGED <<kind, setup_fields, coordinator_fields, lock_fields, ha_state, cmd_fields, poll_pc, ever_loaded, update_fetch,
                   self_climate>>

ClimateNext ==
    \/ climate_update_begin
    \/ climate_update_end
    \/ async_set_hvac_mode
    \/ async_set_fan_mode
    \/ async_set_temperature
    \/ climate_sent
    \/ climate_sleep_done
    \/ RemoteClimateChange

\* ------------------------------------------------------------ coordinator.py
\* Outcomes of cloud.login: it returns True or False, raises an API error, or the
\* await is cut short by asyncio.timeout(API_LOGIN_RETRY_TIME * API_MAX_LOGIN_ATTEMPTS).
\* RentlyAuthError and InvalidResponseError are RentlyAPIErrors (openly.exceptions),
\* so `except RentlyAPIError` catches the RentlyAuthError raised on False.
LoginOutcomes == {"True", "False", "RentlyAPIError", "TimeoutError"}

\* outcomes of cloud.get_hubs
GetHubsOutcomes == {"ok", "RentlyAuthError", "InvalidResponseError", "RentlyAPIError"}

entity_fields == <<remote, lock_fields, ha_state, cmd_fields, poll_pc, ever_loaded, update_fetch,
                   self_climate>>

\* async_login at its loop test `while not self.cloud.connected`, holding
\* attempts = a and c as cloud.connected: it leaves the loop and _async_refresh
\* goes on to super()._async_refresh (which submits get_hubs), or it submits login
LoginLoop(a, c) ==
    /\ login_attempts' = a
    /\ IF c
       THEN /\ login_result' = "ok"
            /\ refresh_pc' = "get_hubs"
            /\ UNCHANGED login_calls
       ELSE /\ login_result' = "pending"
            /\ refresh_pc' = "login"
            /\ login_calls' = login_calls + 1

\* _async_refresh is invoked, by async_config_entry_first_refresh during setup or
\* on the update interval once setup is over: async_login starts with attempts = 1
async_refresh ==
    /\ kind = "coordinator"
    /\ refresh_pc = "idle"
    /\ nrefresh < MaxRefreshes
    /\ \/ setup_pc = "first_refresh" /\ nrefresh = 0
       \/ setup_pc = "done"
    /\ nrefresh' = nrefresh + 1
    /\ was_connected' = connected
    /\ refresh_result' = "pending"
    /\ hubs_outcome' = "none"
    /\ login_attempts' = 1
    /\ IF connected
       THEN /\ login_result' = "ok"
            /\ refresh_pc' = "get_hubs"
            /\ login_calls' = 0
       ELSE /\ login_result' = "pending"
            /\ refresh_pc' = "login"
            /\ login_calls' = 1
    /\ UNCHANGED <<kind, setup_fields, entity_fields, connected>>

\* async_login raises e, which leaves _async_refresh as it is
LoginRaises(e) ==
    /\ login_result' = e
    /\ refresh_result' = e
    /\ refresh_pc' = "idle"
    /\ UNCHANGED <<login_attempts, login_calls, connected>>

\* the handler of `except RentlyAPIError`: raise when attempts > the limit, else
\* attempts += 1, asyncio.sleep() (not awaited: no delay) and the loop test
login_failed ==
    IF login_attempts > API_MAX_LOGIN_ATTEMPTS
    THEN LoginRaises("InvalidResponseError")
    ELSE /\ LoginLoop(login_attempts + 1, connected)
         /\ UNCHANGED <<connected, refresh_result>>

\* async_login resumes from the login job
async_login ==
    /\ kind = "coordinator"
    /\ refresh_pc = "login"
    /\ \E out \in LoginOutcomes :
          CASE out = "True" ->
                  /\ connected' = TRUE
                  /\ LoginLoop(login_attempts, TRUE)
                  /\ UNCHANGED refresh_result
            [] out = "TimeoutError" -> LoginRaises("TimeoutError")
            [] OTHER -> login_failed
    /\ UNCHANGED <<kind, setup_fields, entity_fields, was_connected, hubs_outcome, nrefresh>>

\* _async_update_data: get_hubs returns, or its error is translated
async_update_data ==
    /\ kind = "coordinator"
    /\ refresh_pc = "get_hubs"
    /\ refresh_pc' = "idle"
    /\ \E out \in GetHubsOutcomes :
          /\ hubs_outcome' = out
          /\ refresh_result' =
                CASE out = "RentlyAuthError" -> "ConfigEntryAuthFailed"
                  [] out = "InvalidResponseError" -> "UpdateFailed"
                  [] OTHER -> out
    /\ UNCHANGED <<kind, setup_fields, entity_fields, connected, login_attempts, login_calls,
                   was_connected, login_result, nrefresh>>

\* the session ends on the cloud client's side
SessionExpires ==
    /\ kind = "coordinator"
    /\ connected
    /\ connected' = FALSE
    /\ UNCHANGED <<kind, setup_fields, entity_fields, refresh_pc, login_attempts, login_calls,
                   was_connected, login_result, refresh_result, hubs_outcome,
                   nrefresh>>

CoordinatorNext ==
    \/ async_refresh
    \/ async_login
    \/ async_update_data
    \/ SessionExpires

\* ------------------------------------------------------------ __init__.py
HubIds == 1..MaxHubs
DeviceTypes == {"Lock", "Thermostat"}

\* a device of the cloud: its type stands for its class (isinstance(device, Lock))
Device(h, ty) == [hub |-> h, type |-> ty]
Devices == {Device(h, ty) : h \in HubIds, ty \in DeviceTypes}

\* what the account may hold: some hubs, each with some devices
Topologies ==
    {t \in [hubs : SUBSET HubIds, devices : SUBSET Devices] :
        \A d \in t.devices : d.hub \in t.hubs}

\* the list a set of ids is returned as
RECURSIVE ListOf(_)
ListOf(S) ==
    IF S = {} THEN <<>>
    ELSE LET m == CHOOSE x \in S : \A y \in S : x <= y
         IN  <<m>> \o ListOf(S \ {m})

\* cloud.get_hubs and cloud.get_devices(h) when they return
get_hubs == ListOf(cloud_hubs)

get_devices(h) ==
    (IF Device(h, "Lock") \in cloud_devices THEN <<Device(h, "Lock")>> ELSE <<>>)
        \o (IF Device(h, "Thermostat") \in cloud_devices
            THEN <<Device(h, "Thermostat")>> ELSE <<>>)

\* the devices of a list that are instances of a type
OfType(devs, ty) == SelectSeq(devs, LAMBDA d : d.type = ty)

\* outcomes of the cloud.login of async_setup_entry
SetupLoginOutcomes == {"True", "False", "RentlyAuthError", "MissingParametersError"}

\* outcomes of the cloud calls made under asyncio.timeout(10)
EnumerationOutcomes ==
    {"ok", "RentlyAuthError", "InvalidResponseError", "RentlyAPIError", "TimeoutError"}

\* async_setup_entry raises e
SetupRaises(e) ==
    /\ setup_pc' = "failed"
    /\ setup_result' = e
    /\ UNCHANGED <<setup_locals, collections, registered, added, built_from>>

\* the handlers around the enumeration: what error e leaves async_setup_entry as
Translated(e) ==
    CASE e = "RentlyAuthError" -> "ConfigEntryAuthFailed"
      [] e = "InvalidResponseError" -> "UpdateFailed"
      [] OTHER -> e

\* async_setup_entry resumes from cloud.login; on success CloudCoordinator(hass,
\* cloud) is constructed and async_config_entry_first_refresh awaited
setup_login ==
    /\ kind = "coordinator"
    /\ setup_pc = "login"
    /\ \E out \in SetupLoginOutcomes :
          CASE out = "RentlyAuthError" ->
                  SetupRaises("InvalidAuth") /\ UNCHANGED connected
            [] out = "MissingParametersError" ->
                  SetupRaises("CannotConnect") /\ UNCHANGED connected
            [] OTHER ->
                  /\ connected' = (out = "True")
                  /\ setup_pc' = "first_refresh"
                  /\ coordinator_hubs' = <<>>
                  /\ coordinator_locks' = <<>>
                  /\ coordinator_climates' = <<>>
                  /\ UNCHANGED <<setup_result, setup_locals, registered, added,
                                 built_from>>
    /\ UNCHANGED <<kind, entity_fields, cloud_hubs, cloud_devices, refresh_pc,
                   login_attempts, login_calls, was_connected, login_result,
                   refresh_result, hubs_outcome, nrefresh>>

\* the exception async_config_entry_first_refresh raises for a failed refresh:
\* what async_login raised, ConfigEntryAuthFailed, or else ConfigEntryNotReady
FirstRefreshError ==
    IF login_result # "ok" THEN refresh_result
    ELSE IF refresh_result = "ConfigEntryAuthFailed" THEN refresh_result
    ELSE "ConfigEntryNotReady"

\* a setup that goes on to the enumeration whatever the first refresh gave
setup_first_refresh_unchecked ==
    /\ kind = "coordinator"
    /\ setup_pc = "first_refresh"
    /\ nrefresh > 0
    /\ refresh_pc = "idle"
    /\ setup_pc' = "get_hubs"
    /\ lock_devices' = <<>>
    /\ UNCHANGED <<setup_result, hub_devices, hub_index, thermostats_seen,
                   collections, registered, added, built_from>>
    /\ UNCHANGED <<kind, entity_fields, coordinator_fields, cloud_hubs, cloud_devices>>

\* async_config_entry_first_refresh returns or raises; on return lock_devices = []
\* and get_hubs is submitted
setup_first_refresh ==
    /\ kind = "coordinator"
    /\ setup_pc = "first_refresh"
    /\ nrefresh > 0
    /\ refresh_pc = "idle"
    /\ IF refresh_result = "ok"
       THEN /\ setup_pc' = "get_hubs"
            /\ lock_devices' = <<>>
            /\ UNCHANGED <<setup_result, hub_devices, hub_index, thermostats_seen,
                           collections, registered, added, built_from>>
       ELSE SetupRaises(FirstRefreshError)
    /\ UNCHANGED <<kind, entity_fields, coordinator_fields, cloud_hubs, cloud_devices>>

\* the end of the enumeration, with hs and ls as hub_devices and lock_devices:
\* coordinator.hubs and coordinator.locks are assigned (an entity is written as
\* the hub id or device it is constructed for), the coordinator is saved in
\* hass.data and async_forward_entry_setups awaited
BuildCollections(hs, ls) ==
    /\ coordinator_hubs' = hs
    /\ coordinator_locks' = ls
    /\ UNCHANGED coordinator_climates
    /\ built_from' = nrefresh
    /\ registered' = TRUE
    /\ setup_pc' = "forwarding"
    /\ UNCHANGED <<setup_result, added>>

\* an enumeration that assigns coordinator.hubs as soon as get_hubs has returned
setup_get_hubs_assigns_early ==
    /\ kind = "coordinator"
    /\ setup_pc = "get_hubs"
    /\ \E out \in EnumerationOutcomes :
          IF out # "ok"
          THEN SetupRaises(Translated(out))
          ELSE /\ hub_devices' = get_hubs
               /\ thermostats_seen' = <<>>
               /\ UNCHANGED lock_devices
               /\ IF get_hubs = <<>>
                  THEN /\ BuildCollections(<<>>, lock_devices)
                       /\ UNCHANGED hub_index
                  ELSE /\ hub_index' = 1
                       /\ setup_pc' = "get_devices"
                       /\ coordinator_hubs' = get_hubs
                       /\ UNCHANGED <<setup_result, coordinator_locks,
                                      coordinator_climates, registered, added,
                                      built_from>>
    /\ UNCHANGED <<kind, entity_fields, coordinator_fields, cloud_hubs, cloud_devices>>

\* the enumeration resumes from get_hubs: the loop over hub_devices starts, or
\* with no hub is over at once
setup_get_hubs ==
    /\ kind = "coordinator"
    /\ setup_pc = "get_hubs"
    /\ \E out \in EnumerationOutcomes :
          IF out # "ok"
          THEN SetupRaises(Translated(out))
          ELSE /\ hub_devices' = get_hubs
               /\ thermostats_seen' = <<>>
               /\ UNCHANGED lock_devices
               /\ IF get_hubs = <<>>
                  THEN /\ BuildCollections(<<>>, lock_devices)
                       /\ UNCHANGED hub_index
                  ELSE /\ hub_index' = 1
                       /\ setup_pc' = "get_devices"
                       /\ UNCHANGED <<setup_result, collections, registered, added,
                                      built_from>>
    /\ UNCHANGED <<kind, entity_fields, coordinator_fields, cloud_hubs, cloud_devices>>

\* the loop body resumes from get_devices(hub.id): the locks among the devices are
\* appended, and the loop goes on to the next hub or is over
setup_get_devices ==
    /\ kind = "coordinator"
    /\ setup_pc = "get_devices"
    /\ \E out \in EnumerationOutcomes :
          IF out # "ok"
          THEN SetupRaises(Translated(out))
          ELSE LET devices_data == get_devices(hub_devices[hub_index])
                   locks == lock_devices \o OfType(devices_data, "Lock")
               IN  /\ lock_devices' = locks
                   /\ thermostats_seen' =
                          thermostats_seen \o OfType(devices_data, "Thermostat")
                   /\ UNCHANGED hub_devices
                   /\ IF hub_index = Len(hub_devices)
                      THEN /\ BuildCollections(hub_devices, locks)
                           /\ UNCHANGED hub_index
                      ELSE /\ hub_index' = hub_index + 1
                           /\ UNCHANGED <<setup_pc, setup_result, collections,
                                          registered, added, built_from>>
    /\ UNCHANGED <<kind, entity_fields, coordinator_fields, cloud_hubs, cloud_devices>>

\* async_forward_entry_setups(entry, PLATFORMS) returns: the lock platform has given
\* coordinator.locks to async_add_entities, and async_setup_entry returns True
setup_forward ==
    /\ kind = "coordinator"
    /\ setup_pc = "forwarding"
    /\ added' = coordinator_locks
    /\ setup_pc' = "done"
    /\ setup_result' = "True"
    /\ UNCHANGED <<setup_locals, collections, registered, built_from>>
    /\ UNCHANGED <<kind, entity_fields, coordinator_fields, cloud_hubs, cloud_devices>>

\* the remote side, while the enumeration runs: a device is added to a hub of
\* the account or removed from it
RemoteDeviceChange ==
    /\ kind = "coordinator"
    /\ setup_pc = "get_devices"
    /\ \E d \in Devices :
          /\ d.hub \in cloud_hubs
          /\ cloud_devices' = (IF d \in cloud_devices THEN cloud_devices \ {d}
                                                      ELSE cloud_devices \cup {d})
    /\ UNCHANGED <<kind, entity_fields, coordinator_fields, cloud_hubs, setup_pc,
                   setup_result, setup_locals, collections, registered, added,
                   built_from>>

SetupNext ==
    \/ setup_login
    \/ setup_first_refresh
    \/ setup_get_hubs
    \/ setup_get_devices
    \/ setup_forward
    \/ RemoteDeviceChange
    \/ CoordinatorNext

\* ------------------------------------------------------------ specifications
\* no async_setup_entry is followed: nothing of it is held
NoSetup ==
    /\ cloud_hubs = {}
    /\ cloud_devices = {}
    /\ setup_result = "none"
    /\ hub_devices = <<>>
    /\ hub_index = 0
    /\ lock_devices = <<>>
    /\ thermostats_seen = <<>>
    /\ coordinator_hubs = <<>>
    /\ coordinator_locks = <<>>
    /\ coordinator_climates = <<>>
    /\ registered = FALSE
    /\ added = <<>>
    /\ built_from = 0

CommandInit ==
    /\ ha_state = "none"
    /\ pc = "idle"
    /\ op = "none"
    /\ result = "none"
    /\ attempts = 0
    /\ poll_pc = "idle"
    /\ trace = <<>>
    /\ confirm_fetches = <<>>
    /\ final_fetch = "none"
    /\ ever_loaded = FALSE
    /\ update_fetch = NoFetch
    /\ args = <<>>
    /\ sent = None
    /\ mutation_result = "none"
    /\ ncmds = 0

\* CloudCoordinator.__init__; the session is as async_setup_entry's login left it
CoordinatorInit ==
    /\ refresh_pc = "idle"
    /\ login_attempts = 0
    /\ login_calls = 0
    /\ was_connected = FALSE
    /\ login_result = "none"
    /\ refresh_result = "none"
    /\ hubs_outcome = "none"
    /\ nrefresh = 0

\* a device entity: the coordinator wraps a device in a LockEntity or a ClimateEntity
Init ==
    /\ \/ /\ kind = "lock"
          /\ remote \in LockRecords \cup {None}
          /\ LockEntityInit
          /\ self_climate = None
       \/ /\ kind = "climate"
          /\ remote \in RemoteThermostats \cup {None}
          /\ ClimateEntityInit
          /\ self_lock = None
          /\ self_attr_available = TRUE
          /\ battery_attr = 0
          /\ logged = FALSE
          /\ update_found = FALSE
    /\ CommandInit
    /\ CoordinatorInit
    /\ connected = TRUE
    /\ NoSetup
    /\ setup_pc = "none"

Next == LockNext \/ ClimateNext

Spec == Init /\ [][Next]_vars

\* the coordinator
InitLogin ==
    /\ kind = "coordinator"
    /\ remote = None
    /\ LockEntityInit
    /\ self_climate = None
    /\ CommandInit
    /\ CoordinatorInit
    /\ connected \in BOOLEAN
    /\ NoSetup
    /\ setup_pc = "done"

SpecLogin == InitLogin /\ [][CoordinatorNext]_vars

\* async_setup_entry is called for a config entry: the cloud client is new
InitSetup ==
    /\ kind = "coordinator"
    /\ remote = None
    /\ LockEntityInit
    /\ self_climate = None
    /\ CommandInit
    /\ CoordinatorInit
    /\ connected = FALSE
    /\ \E t \in Topologies : cloud_hubs = t.hubs /\ cloud_devices = t.devices
    /\ setup_pc = "login"
    /\ setup_result = "pending"
    /\ hub_devices = <<>>
    /\ hub_index = 0
    /\ lock_devices = <<>>
    /\ thermostats_seen = <<>>
    /\ coordinator_hubs = <<>>
    /\ coordinator_locks = <<>>
    /\ coordinator_climates = <<>>
    /\ registered = FALSE
    /\ added = <<>>
    /\ built_from = 0

SpecSetup == InitSetup /\ [][SetupNext]_vars

\* a lock whose device stays registered and whose host keeps polling it (the
\* entity has should_poll = True and SCAN_INTERVAL = 60 s): every poll that is
\* due starts, and of the polls that end, some end with get_device returning
InitLive ==
    /\ kind = "lock"
    /\ remote \in LiveRemotes
    /\ LockEntityInit
    /\ self_climate = None
    /\ CommandInit
    /\ CoordinatorInit
    /\ connected = TRUE
    /\ NoSetup
    /\ setup_pc = "none"

LiveNext ==
    \/ async_update_begin
    \/ async_update_end
    \/ async_lock
    \/ async_unlock
    \/ lock_sent
    \/ lock_sleep_done
    \/ lock_confirm
    \/ lock_final_update
    \/ RemoteModeChange

PollFinds == async_update_end /\ IsRecord(update_fetch')

SpecLive ==
    /\ InitLive
    /\ [][LiveNext]_vars
    /\ WF_vars(async_update_begin)
    /\ SF_vars(PollFinds)

TypeOK ==
    /\ kind \in {"lock", "climate", "coordinator"}
    /\ Len(confirm_fetches) <= LOCK_MAX_REFRESH_ATTEMPTS
    /\ Len(trace) <= 5

\* ------------------------------------------------------------ properties
LockOps == {"lock", "unlock"}

\* the mode a command is meant to bring about: locked for lock, any reported
\* mode other than locked for unlock
IntendedMode(o, m) ==
    IF o = "lock" THEN m = STATE_LOCKED ELSE m \in RemoteLockModes \ {STATE_LOCKED}

\* no confirmation fetch of the command last invoked showed the intended mode
NeverConfirmed ==
    \A i \in 1..Len(confirm_fetches) : ~IntendedMode(op, confirm_fetches[i])

\* the step in which a lock command returns normally
LockCommandReturns ==
    /\ op \in LockOps
    /\ pc # "idle"
    /\ pc' = "idle"
    /\ result' = "ok"

\* C1: a lock()/unlock() whose confirmation fetches never show the intended
\* mode makes exactly LOCK_MAX_REFRESH_ATTEMPTS = 3 confirmation fetches after
\* the mutation, then exactly one final refresh.
C1_ThreeConfirmationFetches ==
    (op \in LockOps /\ result = "ok" /\ NeverConfirmed)
        => /\ Len(confirm_fetches) = LOCK_MAX_REFRESH_ATTEMPTS
           /\ CloudCalls(trace) = <<"update_device_status">>
                  \o [i \in 1..(LOCK_MAX_REFRESH_ATTEMPTS + 1) |-> "get_device"]

\* C2: in every lock()/unlock() on a loaded lock the transient state is set and
\* published before update_device_status is issued: whenever the mutation is
\* among the command's calls, the write of the state came first in its trace
\* and what was written is the transient state; this holds while the remote
\* call is pending and after it has failed.
C2_TransientPublishedBeforeMutation ==
    (op \in LockOps /\ \E i \in 1..Len(trace) : trace[i] = "update_device_status")
        => /\ trace[1] = "async_write_ha_state"
           /\ trace[2] = "update_device_status"
           /\ ha_state = Transient(op)
           /\ (pc = "mutating" => result = "pending")

C2_Witness ==
    /\ op = "unlock"
    /\ result = "RentlyAPIError"
    /\ trace = <<"async_write_ha_state", "update_device_status">>
    /\ ha_state = STATE_UNLOCKING

Invoked == ncmds' = ncmds + 1

\* C5: lock(), unlock(), set_hvac_mode() and set_fan_mode() invoked on an entity
\* whose device record was never successfully fetched fail with device-not-found,
\* issue no cloud-client call and leave the entity's local state unchanged.
C5_NeverLoadedCommandsFail ==
    [][(Invoked /\ ~ever_loaded
          /\ op' \in {"lock", "unlock", "set_hvac_mode", "set_fan_mode"})
          => /\ result' = "DeviceNotFoundError"
             /\ trace' = <<>>
             /\ pc' = "idle"
             /\ UNCHANGED <<self_lock, self_state, self_attr_available, battery_attr,
                            self_climate, ha_state, sent>>]_vars

C5_Witness ==
    /\ ~ever_loaded
    /\ op = "unlock"
    /\ result = "DeviceNotFoundError"
    /\ trace = <<>>
    /\ ~self_attr_available
    /\ self_state = STATE_UNAVAILABLE

\* C6: set_temperature() invoked on an entity whose device record was never
\* successfully fetched fails with device-not-found and issues no cloud-client
\* call, whatever low/high bounds are supplied.
C6_NeverLoadedSetTemperatureFails ==
    [][(Invoked /\ ~ever_loaded /\ op' = "set_temperature")
          => /\ result' = "DeviceNotFoundError"
             /\ trace' = <<>>]_vars

\* C7: set_hvac_mode(m) with m outside the loaded record's modes, and
\* set_fan_mode(f) with f outside its fan_modes, fail with unsupported-state,
\* issue no cloud-client call and leave the local record unchanged.
C7_UnsupportedModeRejected ==
    [][(Invoked /\ self_climate # None
          /\ \/ op' = "set_hvac_mode" /\ args'.mode \notin self_climate.modes
             \/ op' = "set_fan_mode" /\ args'.mode \notin self_climate.fan_modes)
          => /\ result' = "StateNotSupportedError"
             /\ trace' = <<>>
             /\ pc' = "idle"
             /\ UNCHANGED <<self_climate, sent, ha_state>>]_vars

C7_Witness ==
    /\ op = "set_hvac_mode"
    /\ result = "StateNotSupportedError"
    /\ args.mode = "cool"
    /\ self_climate # None
    /\ self_climate.modes = {"off", "heat"}
    /\ self_climate.mode = "heat"
    /\ trace = <<>>

\* C8: set_temperature on a loaded device: in cool mode given only a high bound
\* the cooling setpoint becomes high and the heating setpoint high - 3; in heat
\* mode given only a low bound the heating setpoint becomes low and the cooling
\* setpoint low + 3; the resulting record is then sent to the cloud.
C8_SingleBoundDerivesOther ==
    [][(Invoked /\ op' = "set_temperature" /\ self_climate # None)
          => /\ (self_climate.mode = "cool" /\ args'.low = <<>> /\ args'.high # <<>>)
                   => /\ self_climate'.cooling_setpoint = IntOfFloat(args'.high[1])
                      /\ self_climate'.heating_setpoint =
                             IntOfFloat(args'.high[1]) - CLIMATE_MIN_TEMP_SPREAD
                      /\ sent' = self_climate'
                      /\ trace' = <<"update_device_status">>
             /\ (self_climate.mode = "heat" /\ args'.high = <<>> /\ args'.low # <<>>)
                   => /\ self_climate'.heating_setpoint = IntOfFloat(args'.low[1])
                      /\ self_climate'.cooling_setpoint =
                             IntOfFloat(args'.low[1]) + CLIMATE_MIN_TEMP_SPREAD
                      /\ sent' = self_climate'
                      /\ trace' = <<"update_device_status">>]_vars

\* async_login has given up after using up its attempts
LoginGaveUp == login_result \notin {"none", "pending", "ok", "TimeoutError"}

\* what the host treats as an authentication failure, and as a transient one
AuthenticationFailures == {"ConfigEntryAuthFailed", "RentlyAuthError"}

TransientFailures == {"UpdateFailed", "InvalidResponseError", "RentlyAPIError"}

\* C9: one invocation of async_login makes no login call when the session is
\* already connected, and otherwise at most API_MAX_LOGIN_ATTEMPTS = 3 login
\* calls before giving up; once it has given up it is no longer running, so no
\* further login call is made until it is invoked again.
C9_LoginCallsBounded ==
    /\ (nrefresh > 0 /\ was_connected) => login_calls = 0
    /\ login_calls <= API_MAX_LOGIN_ATTEMPTS
    /\ LoginGaveUp => refresh_pc = "idle"

\* C10: when async_login gives up after using up its attempts, what it raises
\* (and so what the refresh ends with) is an authentication failure, not the
\* transient API/update failure.
C10_ExhaustionIsAuthFailure ==
    LoginGaveUp
        => /\ login_result \in AuthenticationFailures
           /\ refresh_result \in AuthenticationFailures
           /\ refresh_result \notin TransientFailures
\* C11: during a refresh's hub fetch an authentication error of the cloud
\* client is signalled as an authentication failure (ConfigEntryAuthFailed), and
\* every other cloud-client error, generic or invalid-response, as a recoverable
\* update failure (UpdateFailed); no cloud-client error leaves the refresh in
\* any other form.
C11_HubFetchErrorsTranslated ==
    /\ hubs_outcome = "RentlyAuthError" => refresh_result = "ConfigEntryAuthFailed"
    /\ hubs_outcome \in {"InvalidResponseError", "RentlyAPIError"}
           => refresh_result = "UpdateFailed"
    /\ hubs_outcome # "none"
           => refresh_result \in {"ok", "ConfigEntryAuthFailed", "UpdateFailed"}
\* the step in which a climate command whose mutation was sent and accepted
\* ends, by returning or by raising
ClimateSaveEnds ==
    /\ kind = "climate"
    /\ pc # "idle"
    /\ pc' = "idle"
    /\ \E i \in 1..Len(trace') : trace'[i] = "async_write_ha_state"

\* C12: when a climate save (from set_hvac_mode, set_fan_mode or
\* set_temperature) finishes, the state published for the entity is the record
\* the remote side reports at that moment (mode, fan, heating and cooling
\* setpoints), whether or not confirmation polling observed a match.
C12_SavePublishesRemote ==
    [][ClimateSaveEnds => ha_state' = remote']_vars
\* the remote mutation of the command last invoked was sent and accepted: a lock
\* command went on to submit a fetch, a climate save went on to publish
MutationAccepted ==
    IF op \in LockOps
    THEN Len(CloudCalls(trace)) >= 2
    ELSE \E i \in 1..Len(trace) : trace[i] = "async_write_ha_state"

\* C13: once a command's remote mutation has been sent (lock, unlock or a
\* climate save), a failure during confirmation polling (a confirmation fetch
\* that errors or finds no device, or a budget that runs out) is never raised
\* to the caller: the command has returned normally whenever it has ended,
\* unless it was the final refresh (not a confirmation fetch) that failed.
C13_ConfirmationFailuresNotRaised ==
    (pc = "idle" /\ op # "none" /\ MutationAccepted)
        => result = "ok" \/ final_fetch = "RentlyAPIError"
\* C20: in a lock()/unlock(), once a confirmation fetch has reported the
\* intended final state (locked for lock; a mode other than locked for unlock)
\* that fetch is the last confirmation fetch: the command is in its final
\* refresh or has ended, it has issued no fetch but the confirmation fetches
\* and one final refresh, and it does not end without that refresh.
C20_MatchEndsPolling ==
    (op \in LockOps /\ \E i \in 1..Len(confirm_fetches) :
                            IntendedMode(op, confirm_fetches[i]))
        => /\ \A i \in 1..(Len(confirm_fetches) - 1) :
                   ~IntendedMode(op, confirm_fetches[i])
           /\ pc \in {"refreshing", "idle"}
           /\ CloudCalls(trace) = <<"update_device_status">>
                  \o [i \in 1..(Len(confirm_fetches) + 1) |-> "get_device"]
           /\ pc = "idle" => /\ final_fetch # "none"
                             /\ result \in {"ok", "RentlyAPIError"}

C20_Witness ==
    /\ op = "lock"
    /\ pc = "idle"
    /\ result = "ok"
    /\ confirm_fetches = <<STATE_LOCKED>>
    /\ final_fetch = STATE_UNLOCKED
    /\ Len(trace) = 4
\* the step in which an async_update of the lock ends: the host's poll, or the
\* final refresh of a command
LockUpdateEnds ==
    /\ kind = "lock"
    /\ \/ poll_pc = "fetching" /\ poll_pc' = "idle"
       \/ pc = "refreshing" /\ pc' = "idle"

\* C19: a lock update() whose fetch finds no device marks the entity
\* unavailable and leaves its state (and battery level) at the previous value;
\* one whose fetch finds the device marks it available, stores the battery
\* level and sets the state to the record's mode. "Lock not found" is logged
\* exactly when the entity was available before a not-found update, so not on
\* the not-found updates that follow.
C19_LockUpdateEffect ==
    [][LockUpdateEnds
          => CASE update_fetch' = None ->
                     /\ self_lock' = None
                     /\ ~self_attr_available'
                     /\ UNCHANGED <<self_state, battery_attr>>
                     /\ logged' = self_attr_available
               [] IsRecord(update_fetch') ->
                     /\ self_lock' = update_fetch'
                     /\ self_attr_available'
                     /\ battery_attr' = update_fetch'.battery
                     /\ self_state' = update_fetch'.mode
                     /\ ~logged'
               [] OTHER -> UNCHANGED lock_fields]_vars

\* a second not-found poll in a row: nothing logged, the state still the mode
\* the device had when it was last found
C19_Witness ==
    /\ kind = "lock"
    /\ ncmds = 0
    /\ update_fetch = None
    /\ ~self_attr_available
    /\ ~logged
    /\ self_state = STATE_JAMMED
    /\ battery_attr = 1
\* the step in which the host's poll of the entity (lock or climate) ends with
\* a fetch that returned, no command having been invoked so far
UpdateAloneEnds ==
    /\ poll_pc = "fetching"
    /\ poll_pc' = "idle"
    /\ ncmds = 0
    /\ update_fetch' # RentlyAPIError

\* C15: repeated update() calls with no intervening command are idempotent:
\* after each of them the entity holds the result of its fetch, whatever the
\* updates before it did (the record fetched, or none and, for the lock, the
\* unavailable mark; when a device was found the state is its mode, the lock
\* is available and its battery level stored), and an update whose fetch gives
\* the same result as the update before it changes nothing in the entity.
C15_UpdatesIdempotent ==
    [][UpdateAloneEnds
          => /\ IF kind = "lock"
                THEN /\ self_lock' = update_fetch'
                     /\ self_attr_available' = (update_fetch' # None)
                     /\ update_fetch' # None
                            => /\ self_state' = update_fetch'.mode
                               /\ battery_attr' = update_fetch'.battery
                ELSE /\ self_climate' = update_fetch'
                     /\ update_fetch' # None => self_state' = update_fetch'.mode
             /\ update_fetch' = update_fetch
                    => UNCHANGED <<self_lock, self_state, self_attr_available,
                                   battery_attr, self_climate>>]_vars

\* a thermostat found in cool mode by one update and not found by a later one
C15_Witness ==
    /\ kind = "climate"
    /\ ncmds = 0
    /\ poll_pc = "idle"
    /\ update_fetch = None
    /\ self_climate = None
    /\ self_state = "cool"
\* C14: after any lock() or unlock() has ended, by returning or by raising at
\* any point, the entity does not keep the optimistic locking/unlocking state:
\* with the host's polls scheduled fairly and a remote that reports a
\* non-transient mode, the entity state eventually equals the mode the remote
\* reports.
C14_TransientStateIsLeft ==
    (op \in LockOps /\ pc = "idle") ~> (self_state = remote.mode)

\* a lock() ended by a failed confirmation fetch, the state being the mode a
\* poll fetched from the remote
C14_Witness ==
    /\ op = "lock"
    /\ pc = "idle"
    /\ result = "RentlyAPIError"
    /\ confirm_fetches = <<"RentlyAPIError">>
    /\ final_fetch = "none"
    /\ update_fetch = remote
    /\ self_state = STATE_UNLOCKED
\* nothing of the collections exists or is visible: they are as constructed,
\* the coordinator is not in hass.data and no entity was handed to the host
NothingBuilt ==
    /\ coordinator_hubs = <<>>
    /\ coordinator_locks = <<>>
    /\ coordinator_climates = <<>>
    /\ ~registered
    /\ added = <<>>

\* async_setup_entry is past its enumeration
EnumerationOver == setup_pc \in {"forwarding", "done"}

\* C16: the collections of the coordinator are at every moment a complete
\* snapshot of one enumeration cycle. Until the enumeration is over, and for
\* good when it fails part-way, they are as constructed and out of the
\* consumers' reach; from then on the hubs are the whole hub list of that
\* enumeration and the locks all the locks returned for those hubs in it, each
\* loop pass done. The climate collection is never partly built (it is empty
\* or whole), and what the host is given is the lock collection.
C16_CollectionsAreOneSnapshot ==
    /\ IF EnumerationOver
       THEN /\ registered
            /\ hub_index = Len(hub_devices)
            /\ coordinator_hubs = hub_devices
            /\ coordinator_locks = lock_devices
            /\ \A i \in 1..Len(coordinator_locks) :
                   \E j \in 1..Len(coordinator_hubs) :
                      coordinator_locks[i] = Device(coordinator_hubs[j], "Lock")
       ELSE NothingBuilt
    /\ coordinator_climates \in {<<>>, thermostats_seen}
    /\ added \in {<<>>, coordinator_locks}

\* an enumeration that failed at its second hub, after a lock of the first
C16_Witness ==
    /\ setup_pc = "failed"
    /\ setup_result = "UpdateFailed"
    /\ hub_devices = <<1, 2>>
    /\ hub_index = 2
    /\ lock_devices = <<Device(1, "Lock")>>
    /\ NothingBuilt

\* C17: after every successful refresh (the first at setup and each later
\* periodic one) the collections are rebuilt from that refresh: they were
\* built after the refresh last run, with one hub entity per hub enumerated,
\* one lock entity per lock enumerated and one climate entity per thermostat
\* enumerated.
C17_CollectionsRebuiltEachRefresh ==
    (setup_pc = "done" /\ refresh_pc = "idle" /\ refresh_result = "ok")
        => /\ built_from = nrefresh
           /\ coordinator_hubs = hub_devices
           /\ coordinator_locks = lock_devices
           /\ coordinator_climates = thermostats_seen

\* C18: async_setup_entry constructs no entity, does not register the
\* coordinator, hands nothing to the host and does not complete before the
\* first refresh has finished: while it is past that await the first refresh
\* has run and succeeded, and what it built it built after refresh number 1.
\* When the first refresh fails setup fails, and a setup that has failed has
\* created no entity.
C18_NothingBeforeFirstRefresh ==
    /\ setup_pc \in {"login", "first_refresh"}
           => NothingBuilt /\ setup_result = "pending"
    /\ setup_pc \in {"get_hubs", "get_devices", "forwarding"}
           => nrefresh = 1 /\ refresh_pc = "idle" /\ refresh_result = "ok"
    /\ EnumerationOver => built_from = 1
    /\ setup_pc = "done" => nrefresh >= 1 /\ setup_result = "True"
    /\ setup_pc = "failed"
           => NothingBuilt /\ setup_result \notin {"True", "pending"}
    /\ (nrefresh = 1 /\ refresh_pc = "idle" /\ refresh_result # "ok")
           => setup_pc \in {"first_refresh", "failed"}

\* the first refresh failed on get_hubs and setup raised ConfigEntryNotReady
C18_Witness ==
    /\ setup_pc = "failed"
    /\ setup_result = "ConfigEntryNotReady"
    /\ hubs_outcome = "InvalidResponseError"
    /\ refresh_result = "UpdateFailed"
    /\ cloud_devices # {}
    /\ NothingBuilt
\* C21: when update_device_status fails during lock(), unlock() or a climate
\* save, the failure is raised to the caller and that command issues no
\* confirmation fetch and no final refresh: it has ended with the error, its
\* last cloud-client call being the mutation.
C21_MutationFailureRaised ==
    mutation_result = "RentlyAPIError"
        => /\ pc = "idle"
           /\ result = "RentlyAPIError"
           /\ CloudCalls(trace) = <<"update_device_status">>
           /\ confirm_fetches = <<>>
           /\ final_fetch = "none"

\* a set_fan_mode whose save failed at the mutation: nothing published
C21_Witness ==
    /\ op = "set_fan_mode"
    /\ mutation_result = "RentlyAPIError"
    /\ result = "RentlyAPIError"
    /\ trace = <<"update_device_status">>
    /\ ha_state = "none"

\* the command last invoked is a lock() or unlock() that has published its
\* transient state and has not yet reached its final refresh
LockCommandInFlight ==
    /\ kind = "lock"
    /\ op \in LockOps
    /\ pc \in {"mutating", "sleeping", "confirming"}

\* C22: while a lock() or unlock() command is in flight, after its optimistic
\* publish and before its own final refresh, the entity's state is the
\* transient locking/unlocking state, also when the host's periodic
\* async_update of the same entity runs between the command's steps.
C22_TransientHeldInFlight ==
    LockCommandInFlight => self_state = Transient(op)

\* C23: lock() and unlock() raise DeviceNotFoundError exactly when the local
\* record is absent at the call, which is the case exactly when no async_update
\* has found the device yet or the async_update that last returned found none
\* (whatever an earlier one had loaded); otherwise the command sets and
\* publishes the transient state and submits update_device_status with the
\* record.
C23_NotFoundIffRecordAbsent ==
    [][(kind = "lock" /\ pc = "idle" /\ ncmds' = ncmds + 1)
          => /\ (self_lock = None) <=> (~ever_loaded \/ ~update_found)
             /\ IF self_lock = None
                THEN /\ result' = "DeviceNotFoundError"
                     /\ pc' = "idle"
                     /\ trace' = <<>>
                     /\ UNCHANGED <<self_state, ha_state, sent>>
                ELSE /\ result' = "pending"
                     /\ pc' = "mutating"
                     /\ self_state' = Transient(op')
                     /\ ha_state' = Transient(op')
                     /\ trace' = <<"async_write_ha_state", "update_device_status">>
                     /\ IsRecord(sent')]_vars

\* a command refused after an earlier update had loaded the device and the last
\* one found it gone
C23_Witness ==
    /\ kind = "lock"
    /\ op \in LockOps
    /\ result = "DeviceNotFoundError"
    /\ ever_loaded
    /\ ~update_found
    /\ self_lock = None

\* C24: the record a set_temperature() sends to the cloud, in every HVAC mode
\* (cool, heat and auto), has integer setpoints whose cooling setpoint is at
\* least CLIMATE_MIN_TEMP_SPREAD = 3 above the heating setpoint.
C24_SentSpreadAtLeastMinimum ==
    (kind = "climate" /\ op = "set_temperature" /\ mutation_result # "none")
        => /\ sent.heating_setpoint \in Int
           /\ sent.cooling_setpoint \in Int
           /\ sent.cooling_setpoint - sent.heating_setpoint >= CLIMATE_MIN_TEMP_SPREAD
====
